---- MODULE Spec2Model ----
(***************************************************************************)
(* MP4H264Video of ndx-mp4 (src/src/pynwb/ndx_mp4/mp4.py): the             *)
(* constructor, read_from_file, write_to_file, encode and decode, run one  *)
(* call at a time against a file system.  The staging blocks of encode and *)
(* decode are modelled statement by statement; the codec library is        *)
(* modelled by what the code can observe of it (the staged file, the       *)
(* frames a capture hands back, an exception).                             *)
(*                                                                         *)
(* bytes are sequences of numbers.  An MP4 stream is                       *)
(*   <<width, height, colour, fps>> \o <<frame 0, ..., frame n-1>> \o <<n>> *)
(* the header written when the writer opens, one element per frame written *)
(* and the trailer written by release.  A path is a sequence of            *)
(* characters.  None is <<>> and a present optional value x is <<x>>.      *)
(***************************************************************************)
EXTENDS Integers, Sequences, FiniteSets, TLC

VARIABLES fs,      \* the files on disk: path -> bytes
          dirs,    \* the temporary directories that exist
          obj,     \* the MP4H264Video object: None or <<[name, shape, fps, data]>>
          origin,  \* the data_array obj was built from (None otherwise)
          pc,      \* position of the running call
          loc,     \* arguments and locals of the running call
          trace,   \* what the running call has done so far, in order
          result,  \* how the call ended
          pre      \* fs and obj when the running call began

vars == <<fs, dirs, obj, origin, pc, loc, trace, result, pre>>

\* The largest number of frames of an input array.
MaxFrames == 2

None == <<>>
Some(x) == <<x>>

---------------------------------------------------------------------------
\* Paths

Ext == <<".", "m", "p", "4">>

PathA == <<"a">> \o Ext
PathB == <<"b">> \o Ext
PathUpper == <<"c", ".", "M", "P", "4">>
PathShort == <<"m", "p", "4">>
UserPaths == {PathA, PathB, PathUpper, PathShort}
WritePaths == {PathA, PathB, PathUpper}

\* tempfile names the directory; one name is free at a time
TmpDirs == {<<"/", "t", "1">>}

Lower(c) == CASE c = "M" -> "m" [] c = "P" -> "p" [] OTHER -> c

\* the comparison made on file_path.lower()
endswith_lower(s, suffix) ==
  /\ Len(s) >= Len(suffix)
  /\ [k \in 1..Len(suffix) |-> Lower(s[Len(s) - Len(suffix) + k])] = suffix

\* str.endswith
endswith(s, suffix) ==
  /\ Len(s) >= Len(suffix)
  /\ SubSeq(s, Len(s) - Len(suffix) + 1, Len(s)) = suffix

StartsWith(s, prefix) ==
  /\ Len(s) >= Len(prefix)
  /\ SubSeq(s, 1, Len(prefix)) = prefix

\* f'{tmpdir}/output.mp4' and f'{tmpdir}/input.mp4'
tmp_output_fname(tmpdir) == tmpdir \o <<"/", "o", "u", "t", "p", "u", "t">> \o Ext
tmp_input_fname(tmpdir) == tmpdir \o <<"/", "i", "n", "p", "u", "t">> \o Ext

---------------------------------------------------------------------------
\* Inputs

Names == {"v1", "v2"}
Fps == {25, 30}
StoredShapes == {<<1, 2, 3>>, <<2, 2, 3, 3>>}

Arr(dtype, shape) == [dtype |-> dtype, shape |-> shape]

Shapes ==
  {<<n, 2, 3>> : n \in 0..MaxFrames} \cup {<<n, 2, 3, 3>> : n \in 0..MaxFrames}
    \cup {<<2, 3>>, <<1, 2, 3, 3, 1>>}

Arrays ==
  {Arr("uint8", s) : s \in Shapes}
    \cup {Arr("float32", <<1, 2, 3>>), Arr("float32", <<1, 2, 3, 3>>)}

\* One colour frame, 3 wide and 2 high, at 30 fps.
SampleVideo == <<3, 2, 1, 30, 0, 1>>

DataArgs == {None, Some(<<>>), Some(SampleVideo)}
ArrayArgs == {None} \cup {Some(a) : a \in Arrays}
FileArgs == {None} \cup {Some(p) : p \in UserPaths}
OutArgs == {None, Some(Arr("uint8", <<1, 2, 3, 3>>)), Some(Arr("uint8", <<2, 2, 3>>))}

---------------------------------------------------------------------------
\* Records

Ev(e, p, a) == [ev |-> e, path |-> p, args |-> a]

R(status, bytes, array) == [status |-> status, bytes |-> bytes, array |-> array]
NoResult == R("none", None, None)

NoLoc ==
  [op |-> "none", name |-> "", shape |-> <<>>, fps |-> 0, data |-> None,
   data_array |-> None, data_file |-> None, file_path |-> <<>>,
   array |-> None, efps |-> 0, out |-> None, tmpdir |-> <<>>,
   opened |-> FALSE, i |-> 0, frames |-> <<>>, exc |-> "",
   bytes |-> None, ret |-> None]

---------------------------------------------------------------------------
\* The checks of the constructor and of encode

NumGiven(data, data_array, data_file) ==
  (IF data # None THEN 1 ELSE 0)
    + (IF data_array # None THEN 1 ELSE 0)
    + (IF data_file # None THEN 1 ELSE 0)

\* "at least one" in place of "exactly one"
ArgsOkAtLeastOne(data, data_array, data_file) ==
  NumGiven(data, data_array, data_file) >= 1

ArgsOk(data, data_array, data_file) ==
  ~(NumGiven(data, data_array, data_file) # 1)

\* the dimension check alone
EncodeCheckAnyDtype(array) ==
  IF Len(array.shape) \notin {3, 4} THEN "ValueError" ELSE "ok"

\* "ok", or the exception encode raises before it stages anything
EncodeCheck(array) ==
  IF array.dtype # "uint8" THEN "ValueError"
  ELSE IF Len(array.shape) \notin {3, 4} THEN "ValueError"
  ELSE "ok"

is_color(array) == IF Len(array.shape) = 3 THEN FALSE ELSE TRUE

\* (height, width) in place of (width, height)
FrameSizeSwapped(array) == <<array.shape[2], array.shape[3]>>

\* (array.shape[2], array.shape[1]); Python counts from 0
FrameSize(array) == <<array.shape[3], array.shape[2]>>

\* range(array.shape[0])
NumFrames(array) == array.shape[1]

\* a fixed frame rate in place of the constructor's
CtorEncodeFpsDefault(fps) == 30

\* fps=kwargs["fps"]
CtorEncodeFps(fps) == fps

\* the shape taken from data_array when there is one
CtorKwargsShapeFromArray(args) ==
  [name |-> args.name,
   shape |-> IF args.data_array # None THEN args.data_array[1].shape ELSE args.shape,
   fps |-> args.fps]

\* kwargs as handed to super().__init__, data aside: data_array and data_file
\* are popped, name, shape and fps are the caller's
CtorKwargs(args) ==
  [name |-> args.name, shape |-> args.shape, fps |-> args.fps]

---------------------------------------------------------------------------
\* Files

Put(f, path, bytes) ==
  [p \in DOMAIN f \cup {path} |-> IF p = path THEN bytes ELSE f[p]]

read_from_file(f, file_path) ==
  IF ~endswith(file_path, Ext)
  THEN [status |-> "ValueError", bytes |-> None,
        events |-> <<Ev("read_from_file", file_path, <<>>)>>]
  ELSE IF file_path \notin DOMAIN f
  THEN [status |-> "FileNotFoundError", bytes |-> None,
        events |-> <<Ev("read_from_file", file_path, <<>>),
                     Ev("open_rb", file_path, <<>>)>>]
  ELSE [status |-> "ok", bytes |-> Some(f[file_path]),
        events |-> <<Ev("read_from_file", file_path, <<>>),
                     Ev("open_rb", file_path, <<>>)>>]

\* write_to_file refusing a path as read_from_file does
write_to_file_strict(f, file_path, data) ==
  IF ~endswith(file_path, Ext)
  THEN [status |-> "ValueError", fs |-> f,
        events |-> <<Ev("write_to_file", file_path, <<>>)>>]
  ELSE [status |-> "ok", fs |-> Put(f, file_path, data[1]),
        events |-> <<Ev("write_to_file", file_path, <<>>),
                     Ev("open_wb", file_path, <<>>)>>]

\* data is the object's data: Some(bytes), or None (f.write(None) is a TypeError
\* raised after open(file_path, 'wb') has emptied the file)
write_to_file(f, file_path, data) ==
  LET warned == IF ~endswith(file_path, Ext)
                THEN <<Ev("warn", file_path, <<>>)>> ELSE <<>>
      events == <<Ev("write_to_file", file_path, <<>>)>> \o warned
                  \o <<Ev("open_wb", file_path, <<>>)>>
  IN IF data = None
     THEN [status |-> "TypeError", fs |-> Put(f, file_path, <<>>), events |-> events]
     ELSE [status |-> "ok", fs |-> Put(f, file_path, data[1]), events |-> events]

\* the staged files left where they are
CleanupNothing(f, tmpdir) == f

\* tempfile.TemporaryDirectory.__exit__: the directory and all in it are removed
Cleanup(f, tmpdir) ==
  [p \in {q \in DOMAIN f : ~StartsWith(q, tmpdir \o <<"/">>)} |-> f[p]]

---------------------------------------------------------------------------
\* The codec library, as the code sees it

\* cv2.VideoWriter(fname, fourcc, fps, size, isColor=...) that opens
WriterOpen(f, fname, fps, size, isColor) ==
  Put(f, fname, <<size[1], size[2], IF isColor THEN 1 ELSE 0, fps>>)

\* writer.write(array[i])
WriterWrite(f, fname, i) == Put(f, fname, Append(f[fname], i))

\* writer.release()
WriterRelease(f, fname) == Put(f, fname, Append(f[fname], Len(f[fname]) - 4))

\* cv2.VideoCapture(fname) opens a complete stream only
IsVideo(b) ==
  /\ Len(b) >= 5
  /\ b[Len(b)] = Len(b) - 5
  /\ b[3] \in {0, 1}

FrameCount(b) == b[Len(b)]

\* cap.read() hands back a 3-channel frame whatever the stream's colour flag
CapFrame(b) == <<b[2], b[1], 3>>

\* the shape of np.array(frames, dtype=np.uint8)
np_array(frames) ==
  IF frames = <<>> THEN <<0>> ELSE <<Len(frames)>> \o frames[1]

RECURSIVE StripOnes(_, _)
StripOnes(s, n) ==
  IF Len(s) > n /\ s[1] = 1 THEN StripOnes(Tail(s), n) ELSE s

\* whether out[...] = ret broadcasts
CanAssign(src, dst) ==
  LET s == StripOnes(src, Len(dst))
  IN /\ Len(s) <= Len(dst)
     /\ \A k \in 1..Len(s) :
          \/ s[Len(s) - k + 1] = dst[Len(dst) - k + 1]
          \/ s[Len(s) - k + 1] = 1

\* super().__init__(**kwargs) of the generated BaseVideo class
super_init(name, shape, fps, data) ==
  Some([name |-> name, shape |-> shape, fps |-> fps, data |-> data])

---------------------------------------------------------------------------
\* Init, and the calls that are one step

Init ==
  /\ fs = (PathA :> SampleVideo) @@ (PathUpper :> <<7>>)
  /\ dirs = {}
  /\ obj = None
  /\ origin = None
  /\ pc = "idle"
  /\ loc = NoLoc
  /\ trace = <<>>
  /\ result = NoResult
  /\ pre = [fs |-> (PathA :> SampleVideo) @@ (PathUpper :> <<7>>), obj |-> None]

\* an exception leaves the call
Raise(exc, events) ==
  /\ result' = R(exc, None, None)
  /\ trace' = events
  /\ pc' = "done"

\* Lines 69-73 of __init__, entered with the bytes found so far, the events so
\* far and the files as they then are.
CtorTail(args, data, events, f) ==
  LET r == IF args.data_file # None
           THEN read_from_file(f, args.data_file[1])
           ELSE [status |-> "ok", bytes |-> data, events |-> <<>>]
  IN IF r.status # "ok"
     THEN /\ Raise(r.status, events \o r.events)
          /\ UNCHANGED <<obj, origin>>
     ELSE /\ obj' = super_init(CtorKwargs(args).name, CtorKwargs(args).shape,
                             CtorKwargs(args).fps, r.bytes)
          /\ origin' = args.data_array
          /\ result' = R("ok", None, None)
          /\ trace' = events \o r.events \o <<Ev("super_init", <<>>, <<>>)>>
          /\ pc' = "done"

\* MP4H264Video(name=, shape=, fps=, data=, data_array=, data_file=)
Construct(name, shape, fps, data, data_array, data_file) ==
  /\ pc = "idle"
  /\ obj = None
  /\ pre' = [fs |-> fs, obj |-> obj]
  /\ LET args == [NoLoc EXCEPT !.op = "ctor", !.name = name, !.shape = shape,
                               !.fps = fps, !.data = data,
                               !.data_array = data_array, !.data_file = data_file]
     IN IF ~ArgsOk(data, data_array, data_file)
        THEN /\ loc' = args
             /\ Raise("ValueError", <<>>)
             /\ UNCHANGED <<fs, dirs, obj, origin>>
        ELSE IF data_array # None
        THEN /\ loc' = [args EXCEPT !.array = data_array, !.efps = CtorEncodeFps(fps)]
             /\ UNCHANGED <<fs, dirs, obj, origin>>
             /\ IF EncodeCheck(data_array[1]) # "ok"
                THEN Raise(EncodeCheck(data_array[1]), <<Ev("encode", <<>>, <<>>)>>)
                ELSE /\ trace' = <<Ev("encode", <<>>, <<>>)>>
                     /\ result' = NoResult
                     /\ pc' = "enc_tmpdir"
        ELSE /\ loc' = args
             /\ CtorTail(args, data, <<>>, fs)
             /\ UNCHANGED <<fs, dirs>>

\* MP4H264Video.read_from_file(file_path)
ReadFromFile(file_path) ==
  /\ pc = "idle"
  /\ pre' = [fs |-> fs, obj |-> obj]
  /\ loc' = [NoLoc EXCEPT !.op = "read_from_file", !.file_path = file_path]
  /\ LET r == read_from_file(fs, file_path)
     IN /\ result' = R(r.status, r.bytes, None)
        /\ trace' = r.events
  /\ pc' = "done"
  /\ UNCHANGED <<fs, dirs, obj, origin>>

\* obj.write_to_file(file_path)
WriteToFile(file_path) ==
  /\ pc = "idle"
  /\ obj # None
  /\ pre' = [fs |-> fs, obj |-> obj]
  /\ loc' = [NoLoc EXCEPT !.op = "write_to_file", !.file_path = file_path]
  /\ LET w == write_to_file(fs, file_path, obj[1].data)
     IN /\ fs' = w.fs
        /\ result' = R(w.status, None, None)
        /\ trace' = w.events
  /\ pc' = "done"
  /\ UNCHANGED <<dirs, obj, origin>>

\* the caller takes the result
Return ==
  /\ pc = "done"
  /\ pc' = "idle"
  /\ loc' = NoLoc
  /\ trace' = <<>>
  /\ result' = NoResult
  /\ pre' = [fs |-> fs, obj |-> obj]
  /\ UNCHANGED <<fs, dirs, obj, origin>>

---------------------------------------------------------------------------
\* encode, statement by statement

\* obj.encode(array, fps)
Encode(array, fps) ==
  /\ pc = "idle"
  /\ obj # None
  /\ pre' = [fs |-> fs, obj |-> obj]
  /\ loc' = [NoLoc EXCEPT !.op = "encode", !.array = Some(array), !.efps = fps]
  /\ IF EncodeCheck(array) # "ok"
     THEN Raise(EncodeCheck(array), <<Ev("encode", <<>>, <<>>)>>)
     ELSE /\ trace' = <<Ev("encode", <<>>, <<>>)>>
          /\ result' = NoResult
          /\ pc' = "enc_tmpdir"
  /\ UNCHANGED <<fs, dirs, obj, origin>>

\* with tempfile.TemporaryDirectory() as tmpdir:
EncTmpdir ==
  /\ pc = "enc_tmpdir"
  /\ \E d \in TmpDirs \ dirs :
       /\ dirs' = dirs \cup {d}
       /\ loc' = [loc EXCEPT !.tmpdir = d]
  /\ trace' = Append(trace, Ev("mkdtemp", <<>>, <<>>))
  /\ pc' = "enc_open"
  /\ UNCHANGED <<fs, obj, origin, result, pre>>

\* writer = cv2.VideoWriter(tmp_output_fname, fourcc, fps, size, isColor=is_color)
\* The library opens the writer, or leaves it closed (no H.264 encoder), or raises.
EncOpen ==
  /\ pc = "enc_open"
  /\ LET a == loc.array[1]
         fname == tmp_output_fname(loc.tmpdir)
         size == FrameSize(a)
         ev == Ev("VideoWriter", fname,
                  <<size[1], size[2], loc.efps, IF is_color(a) THEN 1 ELSE 0>>)
     IN /\ trace' = Append(trace, ev)
        /\ \E outcome \in {"opened", "closed", "raise"} :
             CASE outcome = "opened" ->
                    /\ fs' = WriterOpen(fs, fname, loc.efps, size, is_color(a))
                    /\ loc' = [loc EXCEPT !.opened = TRUE]
                    /\ pc' = "enc_write"
               [] outcome = "closed" ->
                    /\ fs' = fs
                    /\ loc' = [loc EXCEPT !.opened = FALSE]
                    /\ pc' = "enc_write"
               [] outcome = "raise" ->
                    /\ fs' = fs
                    /\ loc' = [loc EXCEPT !.exc = "cv2.error"]
                    /\ pc' = "enc_exit"
  /\ UNCHANGED <<dirs, obj, origin, result, pre>>

\* for i in range(array.shape[0]): writer.write(array[i])
EncWrite ==
  /\ pc = "enc_write"
  /\ loc.i < NumFrames(loc.array[1])
  /\ trace' = Append(trace, Ev("write", <<>>, <<loc.i>>))
  /\ \E outcome \in {"written", "raise"} :
       IF outcome = "written"
       THEN /\ fs' = IF loc.opened
                     THEN WriterWrite(fs, tmp_output_fname(loc.tmpdir), loc.i)
                     ELSE fs
            /\ loc' = [loc EXCEPT !.i = loc.i + 1]
            /\ pc' = "enc_write"
       ELSE /\ fs' = fs
            /\ loc' = [loc EXCEPT !.exc = "cv2.error"]
            /\ pc' = "enc_exit"
  /\ UNCHANGED <<dirs, obj, origin, result, pre>>

\* writer.release()
EncRelease ==
  /\ pc = "enc_write"
  /\ ~(loc.i < NumFrames(loc.array[1]))
  /\ trace' = Append(trace, Ev("release", <<>>, <<>>))
  /\ fs' = IF loc.opened
           THEN WriterRelease(fs, tmp_output_fname(loc.tmpdir))
           ELSE fs
  /\ pc' = "enc_read"
  /\ UNCHANGED <<dirs, obj, origin, loc, result, pre>>

\* data = cls.read_from_file(tmp_output_fname)
EncRead ==
  /\ pc = "enc_read"
  /\ LET r == read_from_file(fs, tmp_output_fname(loc.tmpdir))
     IN /\ trace' = trace \o r.events
        /\ loc' = IF r.status = "ok"
                  THEN [loc EXCEPT !.bytes = r.bytes]
                  ELSE [loc EXCEPT !.exc = r.status]
  /\ pc' = "enc_exit"
  /\ UNCHANGED <<fs, dirs, obj, origin, result, pre>>

\* The with block is left, by return data or by the exception: the temporary
\* directory is removed; then encode's caller goes on.
EncExit ==
  /\ pc = "enc_exit"
  /\ fs' = Cleanup(fs, loc.tmpdir)
  /\ dirs' = dirs \ {loc.tmpdir}
  /\ LET events == Append(trace, Ev("rmtree", <<>>, <<>>))
     IN IF loc.exc # ""
        THEN /\ Raise(loc.exc, events)
             /\ UNCHANGED <<obj, origin>>
        ELSE IF loc.op = "ctor"
        THEN CtorTail(loc, loc.bytes, events, Cleanup(fs, loc.tmpdir))
        ELSE /\ result' = R("ok", loc.bytes, None)
             /\ trace' = events
             /\ pc' = "done"
             /\ UNCHANGED <<obj, origin>>
  /\ UNCHANGED <<loc, pre>>

---------------------------------------------------------------------------
\* decode, statement by statement

\* obj.decode(out)
Decode(out) ==
  /\ pc = "idle"
  /\ obj # None
  /\ pre' = [fs |-> fs, obj |-> obj]
  /\ loc' = [NoLoc EXCEPT !.op = "decode", !.out = out]
  /\ trace' = <<Ev("decode", <<>>, <<>>)>>
  /\ result' = NoResult
  /\ pc' = "dec_tmpdir"
  /\ UNCHANGED <<fs, dirs, obj, origin>>

\* with tempfile.TemporaryDirectory() as tmpdir:
DecTmpdir ==
  /\ pc = "dec_tmpdir"
  /\ \E d \in TmpDirs \ dirs :
       /\ dirs' = dirs \cup {d}
       /\ loc' = [loc EXCEPT !.tmpdir = d]
  /\ trace' = Append(trace, Ev("mkdtemp", <<>>, <<>>))
  /\ pc' = "dec_write"
  /\ UNCHANGED <<fs, obj, origin, result, pre>>

\* self.write_to_file(tmp_input_fname)
DecWrite ==
  /\ pc = "dec_write"
  /\ LET w == write_to_file(fs, tmp_input_fname(loc.tmpdir), obj[1].data)
     IN /\ fs' = w.fs
        /\ trace' = trace \o w.events
        /\ IF w.status = "ok"
           THEN /\ loc' = loc
                /\ pc' = "dec_open"
           ELSE /\ loc' = [loc EXCEPT !.exc = w.status]
                /\ pc' = "dec_exit"
  /\ UNCHANGED <<dirs, obj, origin, result, pre>>

\* cap = cv2.VideoCapture(tmp_input_fname); frames = []
DecOpen ==
  /\ pc = "dec_open"
  /\ LET fname == tmp_input_fname(loc.tmpdir)
     IN /\ trace' = Append(trace, Ev("VideoCapture", fname, <<>>))
        /\ loc' = [loc EXCEPT !.opened = IsVideo(fs[fname]), !.frames = <<>>]
  /\ pc' = "dec_read"
  /\ UNCHANGED <<fs, dirs, obj, origin, result, pre>>

\* ret, frame = cap.read(); if not ret: break; frames.append(frame)
DecRead ==
  /\ pc = "dec_read"
  /\ trace' = Append(trace, Ev("read", <<>>, <<Len(loc.frames)>>))
  /\ LET b == fs[tmp_input_fname(loc.tmpdir)]
     IN \E outcome \in {"read", "raise"} :
          IF outcome = "raise"
          THEN /\ loc' = [loc EXCEPT !.exc = "cv2.error"]
               /\ pc' = "dec_exit"
          ELSE IF loc.opened /\ Len(loc.frames) < FrameCount(b)
          THEN /\ loc' = [loc EXCEPT !.frames = Append(loc.frames, CapFrame(b))]
               /\ pc' = "dec_read"
          ELSE /\ loc' = loc
               /\ pc' = "dec_array"
  /\ UNCHANGED <<fs, dirs, obj, origin, result, pre>>

\* ret = np.array(frames, dtype=np.uint8); out[...] = ret; return out / return ret
DecArray ==
  /\ pc = "dec_array"
  /\ LET ret == Arr("uint8", np_array(loc.frames))
     IN loc' = IF loc.out = None
               THEN [loc EXCEPT !.ret = Some(ret)]
               ELSE IF CanAssign(ret.shape, loc.out[1].shape)
               THEN [loc EXCEPT !.ret = loc.out]
               ELSE [loc EXCEPT !.exc = "ValueError"]
  /\ trace' = Append(trace, Ev("np.array", <<>>, <<>>))
  /\ pc' = "dec_exit"
  /\ UNCHANGED <<fs, dirs, obj, origin, result, pre>>

\* The with block is left: the temporary directory is removed.
DecExit ==
  /\ pc = "dec_exit"
  /\ fs' = Cleanup(fs, loc.tmpdir)
  /\ dirs' = dirs \ {loc.tmpdir}
  /\ IF loc.exc # ""
     THEN Raise(loc.exc, Append(trace, Ev("rmtree", <<>>, <<>>)))
     ELSE /\ result' = R("ok", None, loc.ret)
          /\ trace' = Append(trace, Ev("rmtree", <<>>, <<>>))
          /\ pc' = "done"
  /\ UNCHANGED <<obj, origin, loc, pre>>

---------------------------------------------------------------------------

Next ==
  \/ \E name \in Names, shape \in StoredShapes, fps \in Fps,
        data \in DataArgs, data_array \in ArrayArgs, data_file \in FileArgs :
       Construct(name, shape, fps, data, data_array, data_file)
  \/ \E file_path \in UserPaths : ReadFromFile(file_path)
  \/ \E file_path \in WritePaths : WriteToFile(file_path)
  \/ \E array \in Arrays, fps \in Fps : Encode(array, fps)
  \/ \E out \in OutArgs : Decode(out)
  \/ EncTmpdir
  \/ EncOpen
  \/ EncWrite
  \/ EncRelease
  \/ EncRead
  \/ EncExit
  \/ DecTmpdir
  \/ DecWrite
  \/ DecOpen
  \/ DecRead
  \/ DecArray
  \/ DecExit
  \/ Return

Spec == Init /\ [][Next]_vars

---------------------------------------------------------------------------
\* What the properties are stated with

\* how many of data, data_array, data_file the running constructor call was given
GivenCount ==
  Cardinality({k \in {"data", "data_array", "data_file"} : loc[k] # None})

\* the path's last four characters are ".mp4"
EndsMp4(p) ==
  /\ Len(p) >= 4
  /\ p[Len(p) - 3] = "."
  /\ p[Len(p) - 2] = "m"
  /\ p[Len(p) - 1] = "p"
  /\ p[Len(p)] = "4"

IsPrefix(s, t) == Len(s) <= Len(t) /\ SubSeq(t, 1, Len(s)) = s

EventNames == {trace[k].ev : k \in 1..Len(trace)}

InTmp(p) == \E d \in TmpDirs : StartsWith(p, d)

\* the files outside the temporary directories are those of the call's start
OutsideUntouched ==
  /\ {p \in DOMAIN fs : ~InTmp(p)} = DOMAIN pre.fs
  /\ \A p \in DOMAIN pre.fs : fs[p] = pre.fs[p]

\* the complete stream of array a at frame rate fps
StreamOf(a, fps) ==
  <<a.shape[3], a.shape[2], IF Len(a.shape) = 4 THEN 1 ELSE 0, fps>>
    \o [k \in 1..a.shape[1] |-> k - 1] \o <<a.shape[1]>>

\* the steps of encode(a, fps) staged in directory d, in order
EncodeSteps(a, fps, d) ==
  <<Ev("encode", <<>>, <<>>),
    Ev("mkdtemp", <<>>, <<>>),
    Ev("VideoWriter", tmp_output_fname(d),
       <<a.shape[3], a.shape[2], fps, IF Len(a.shape) = 4 THEN 1 ELSE 0>>)>>
    \o [k \in 1..a.shape[1] |-> Ev("write", <<>>, <<k - 1>>)]
    \o <<Ev("release", <<>>, <<>>),
         Ev("read_from_file", tmp_output_fname(d), <<>>),
         Ev("open_rb", tmp_output_fname(d), <<>>),
         Ev("rmtree", <<>>, <<>>)>>

CtorDone == pc = "done" /\ loc.op = "ctor"

---------------------------------------------------------------------------
\* C1: the constructor succeeds only when exactly one of data, data_array,
\* data_file is given; given 0, 2 or 3 of them it raises ValueError before
\* encode, read_from_file or the base constructor is called: nothing is opened,
\* no temporary directory is made, no object is set.
C1_ExactlyOneSource ==
  loc.op = "ctor" =>
    IF GivenCount = 1
    THEN TRUE
    ELSE /\ pc = "done"
         /\ result.status = "ValueError"
         /\ trace = <<>>
         /\ dirs = {}
         /\ fs = pre.fs
         /\ obj = pre.obj

C1_Witness ==
  /\ CtorDone
  /\ GivenCount = 3
  /\ result.status = "ValueError"

\* C2: after a successful construction the stored data is the given data, or
\* encode(data_array, fps) with the constructor's fps, or
\* read_from_file(data_file); the constructor calls exactly one of encode,
\* read_from_file, neither; the stored data is not None.
C2_StoredData ==
  (CtorDone /\ result.status = "ok") =>
    /\ obj # None
    /\ obj[1].data # None
    /\ loc.data # None =>
         /\ obj[1].data = loc.data
         /\ EventNames \cap {"encode", "read_from_file"} = {}
    /\ loc.data_array # None =>
         /\ obj[1].data = Some(StreamOf(loc.data_array[1], loc.fps))
         /\ Cardinality({k \in 1..Len(trace) : trace[k].ev = "encode"}) = 1
         /\ \A k \in 1..Len(trace) :
              trace[k].ev = "read_from_file" => InTmp(trace[k].path)
    /\ loc.data_file # None =>
         /\ obj[1].data = Some(pre.fs[loc.data_file[1]])
         /\ "encode" \notin EventNames
         /\ Cardinality({k \in 1..Len(trace) : trace[k].ev = "read_from_file"}) = 1
         /\ \A k \in 1..Len(trace) :
              trace[k].ev = "read_from_file" => trace[k].path = loc.data_file[1]

C2_Witness ==
  /\ CtorDone
  /\ result.status = "ok"
  /\ loc.data_array # None
  /\ loc.fps = 25
  /\ obj[1].data = Some(<<3, 2, 0, 25, 0, 1, 2>>)

\* C3: encode takes an array only if its dtype is uint8 and it has 3 or 4
\* dimensions; any other is refused with ValueError before a temporary directory
\* or a writer exists, so nothing is written; 3 dimensions are encoded as
\* grayscale and 4 as colour.
C3_EncodeValidation ==
  (loc.array # None /\ pc # "idle") =>
    LET a == loc.array[1]
        accepted == a.dtype = "uint8" /\ Len(a.shape) \in {3, 4}
    IN IF ~accepted
       THEN /\ pc = "done"
            /\ result.status = "ValueError"
            /\ trace = <<Ev("encode", <<>>, <<>>)>>
            /\ dirs = {}
            /\ fs = pre.fs
       ELSE /\ ~(pc = "done" /\ result.status = "ValueError")
            /\ \A k \in 1..Len(trace) :
                 trace[k].ev = "VideoWriter" =>
                   trace[k].args[4] = (IF Len(a.shape) = 3 THEN 0 ELSE 1)
            /\ (pc = "done" /\ result.status = "ok" /\ loc.op = "encode") =>
                 result.bytes[1][3] = (IF Len(a.shape) = 3 THEN 0 ELSE 1)

C3_Witness ==
  /\ pc = "done"
  /\ loc.op = "encode"
  /\ loc.array = Some(Arr("uint8", <<1, 2, 3, 3, 1>>))
  /\ result.status = "ValueError"

\* C4: read_from_file raises ValueError for every path that does not end with
\* ".mp4", without opening the file; for a path that ends with ".mp4" it returns
\* the whole content of the file and leaves the file as it was.
C4_ReadFromFile ==
  (pc = "done" /\ loc.op = "read_from_file") =>
    /\ fs = pre.fs
    /\ IF ~EndsMp4(loc.file_path)
       THEN /\ result.status = "ValueError"
            /\ "open_rb" \notin EventNames
       ELSE loc.file_path \in DOMAIN pre.fs =>
              /\ result.status = "ok"
              /\ result.bytes = Some(pre.fs[loc.file_path])

C4_Witness ==
  /\ pc = "done"
  /\ loc.op = "read_from_file"
  /\ loc.file_path = PathUpper
  /\ PathUpper \in DOMAIN fs
  /\ result.status = "ValueError"

\* C5: write_to_file refuses no path for its extension: for a path not ending
\* with ".mp4" it warns and writes all the same; after the call the file holds
\* exactly the object's data, whatever it held before, and the object's data is
\* unchanged.
C5_WriteToFile ==
  (pc = "done" /\ loc.op = "write_to_file") =>
    /\ result.status = "ok"
    /\ loc.file_path \in DOMAIN fs
    /\ Some(fs[loc.file_path]) = obj[1].data
    /\ obj = pre.obj
    /\ ("warn" \in EventNames) <=> ~EndsMp4(loc.file_path)

C5_Witness ==
  /\ pc = "done"
  /\ loc.op = "write_to_file"
  /\ loc.file_path = PathUpper
  /\ pre.fs[PathUpper] = <<7>>
  /\ fs[PathUpper] # <<7>>
  /\ "warn" \in EventNames

\* C6: an object built from data_array = a decodes to a uint8 array of a's
\* shape: 3 dimensions for grayscale input, 4 for colour, with the same frame
\* count, height and width.
C6_DecodeShape ==
  (/\ pc = "done"
   /\ loc.op = "decode"
   /\ loc.out = None
   /\ result.status = "ok"
   /\ origin # None) =>
    /\ result.array[1].dtype = "uint8"
    /\ result.array[1].shape = origin[1].shape

\* C7: every call of encode or decode, returning or raising at any step of the
\* staging block, ends with its temporary directory and the staged file gone,
\* and no file outside the temporary directory is made or changed by it.
C7_NothingLeftBehind ==
  /\ pc \in {"idle", "done"} =>
       /\ dirs = {}
       /\ \A p \in DOMAIN fs : ~InTmp(p)
  /\ (loc.op \in {"encode", "decode"} \/ (loc.op = "ctor" /\ loc.data_file = None)) =>
       OutsideUntouched

C7_Witness ==
  /\ pc = "done"
  /\ loc.op = "encode"
  /\ result.status = "cv2.error"
  /\ loc.opened
  /\ loc.i = 1
  /\ dirs = {}

\* C8: encode of an accepted array of n frames opens the writer with frame size
\* (array.shape[2], array.shape[1]) and the given fps, writes frames 0..n-1 once
\* each in increasing order, releases the writer, reads the staged file and only
\* then removes the temporary directory; the bytes returned are those the file
\* holds after the release.
C8_EncodeOrder ==
  (/\ loc.op = "encode"
   /\ pc # "idle"
   /\ loc.array[1].dtype = "uint8"
   /\ Len(loc.array[1].shape) \in {3, 4}) =>
    LET steps == EncodeSteps(loc.array[1], loc.efps, loc.tmpdir)
        raised == pc = "done" /\ result.status # "ok"
    IN /\ IsPrefix(IF raised THEN SubSeq(trace, 1, Len(trace) - 1) ELSE trace, steps)
       /\ pc = "done" => trace[Len(trace)].ev = "rmtree"
       /\ (pc = "done" /\ result.status = "ok") =>
            /\ trace = steps
            /\ result.bytes = Some(StreamOf(loc.array[1], loc.efps))

C8_Witness ==
  /\ pc = "done"
  /\ loc.op = "encode"
  /\ result.status = "ok"
  /\ loc.array[1].shape = <<2, 2, 3>>
  /\ Len(trace) = 9

\* C9: the constructor stores the caller's name, shape and fps as given for each
\* data source; shape is not taken from nor compared with data_array's shape, so
\* an object whose stored shape differs from data_array.shape is constructed;
\* encode, decode and write_to_file change none of the stored shape, fps, data.
C9_StoredFields ==
  /\ (CtorDone /\ result.status = "ok") =>
       /\ obj # None
       /\ obj[1].name = loc.name
       /\ obj[1].shape = loc.shape
       /\ obj[1].fps = loc.fps
  /\ loc.op \in {"encode", "decode", "write_to_file", "read_from_file"} =>
       obj = pre.obj

C9_Witness ==
  /\ CtorDone
  /\ result.status = "ok"
  /\ loc.data_array # None
  /\ obj[1].shape = <<1, 2, 3>>
  /\ loc.data_array[1].shape = <<2, 2, 3, 3>>

====
